---- MODULE Spec2Model ----
(***************************************************************************)
(* ADR emoji sync (skills/adr/scripts/adr-sync-emojis.ts) and the report   *)
(* collector (skills/adr/scripts/adr-report.ts), run against a remote      *)
(* document store.                                                         *)
(*                                                                         *)
(* Text is a sequence of atoms: a word, a whitespace atom or a markup tag. *)
(* The regular expressions of the scripts are matchers over such           *)
(* sequences; toLowerCase, trim and String() are computed atom by atom.    *)
(***************************************************************************)
EXTENDS Integers, Sequences, FiniteSets, TLC

(***************************************************************************)
(* Bounds of the model                                                     *)
(***************************************************************************)
\* longest fleet (documents with real titles and bodies) in a collection
MaxDocs == 2
\* largest collection of the paging scenarios (two full pages and one more)
MaxColl == 101
\* writes an external writer may make during one run
MaxExt == 1
\* runs of the script in succession over one store
MaxRuns == 2
\* whitespace atoms before and after a status word
MaxPad == 1
\* atoms of a value cell after its <td>
MaxCell == 4

(***************************************************************************)
(* Program constants                                                       *)
(***************************************************************************)
\* const limit = 50
limit == 50

KeyPublished == "emoji-title-published"
KeyDraft == "emoji-title-draft"
Keys == {KeyPublished, KeyDraft}

(***************************************************************************)
(* Atoms                                                                   *)
(***************************************************************************)
SpaceAtoms == {" ", "\t"}

Tags == {"<tr>", "</tr>", "<td>", "</td>", "<p>", "<p/>", "</p>",
         "<span>", "</span>", "<strong>", "</strong>"}

IsSpace(a) == a \in SpaceAtoms
IsTag(a) == a \in Tags

\* String.prototype.toLowerCase, atom by atom
ToLower(a) ==
  CASE a = "Status" -> "status"
    [] a = "STATUS" -> "status"
    [] a = "Accepted" -> "accepted"
    [] a = "ACCEPTED" -> "accepted"
    [] a = "Approved" -> "approved"
    [] a = "Proposal" -> "proposal"
    [] a = "Proposed" -> "proposed"
    [] a = "Pending" -> "pending"
    [] a = "Approval" -> "approval"
    [] a = "Draft" -> "draft"
    [] a = "DRAFT" -> "draft"
    [] a = "Planning" -> "planning"
    [] a = "Withdrawn" -> "withdrawn"
    [] a = "Rejected" -> "rejected"
    [] a = "Postponed" -> "postponed"
    [] a = "Onboarding" -> "onboarding"
    [] a = "Constructor" -> "constructor"
    [] a = "toString" -> "tostring"
    [] a = "valueOf" -> "valueof"
    [] a = "hasOwnProperty" -> "hasownproperty"
    [] a = "Unknown" -> "unknown"
    [] a = "Affects" -> "affects"
    [] a = "Team" -> "team"
    [] a = "Reserved" -> "reserved"
    [] a = "RESERVED" -> "reserved"
    [] a = "Unreserved" -> "unreserved"
    [] a = "Design" -> "design"
    [] a = "Review" -> "review"
    [] a = "REVIEW" -> "review"
    [] a = "ADR-" -> "adr-"
    [] OTHER -> a

toLowerCase(s) == [i \in 1..Len(s) |-> ToLower(s[i])]

\* first index >= j of s that is not whitespace (Len(s)+1 when there is none)
SkipSpace(s, j) ==
  CHOOSE k \in j..(Len(s) + 1) :
    /\ \A m \in j..(k - 1) : IsSpace(s[m])
    /\ (k = Len(s) + 1 \/ ~IsSpace(s[k]))

\* last index <= j of s that is not whitespace (0 when there is none)
SkipSpaceBack(s, j) ==
  CHOOSE k \in 0..j :
    /\ \A m \in (k + 1)..j : IsSpace(s[m])
    /\ (k = 0 \/ ~IsSpace(s[k]))

\* String.prototype.trim
trim(s) == SubSeq(s, SkipSpace(s, 1), SkipSpaceBack(s, Len(s)))

NotTag(a) == ~IsTag(a)

(***************************************************************************)
(* JavaScript values that the scripts handle: a string, a number, an       *)
(* absent value (undefined), null, a function, a plain object.             *)
(***************************************************************************)
StrVal(c) == [t |-> "str", v |-> c]
NumVal(c) == [t |-> "num", v |-> c]
Undefined == [t |-> "undef", v |-> ""]
Null == [t |-> "null", v |-> ""]
FnVal(name) == [t |-> "fn", v |-> name]
ObjectPrototype == [t |-> "obj", v |-> "Object.prototype"]

\* String(x)
String(x) ==
  CASE x.t = "str" -> x.v
    [] x.t = "num" -> x.v
    [] x.t = "undef" -> "undefined"
    [] x.t = "null" -> "null"
    [] x.t = "fn" -> "function"
    [] x.t = "obj" -> "[object Object]"

\* a === b where a is a string
StrictEqualsString(a, b) == b.t = "str" /\ b.v = a

Truthy(x) ==
  /\ x.t \notin {"undef", "null"}
  /\ ~(x.t = "str" /\ x.v = "")

\* the value a receiver of JSON.stringify({key, value, ...}) reads back:
\* a function-valued member is left out of the text
JsonValue(x) == IF x.t = "fn" THEN Undefined ELSE x

(***************************************************************************)
(* extractStatus                                                           *)
(***************************************************************************)
\* /Status<\/span><\/strong><\/p><\/td>/i at atom i
LabelAt(b, i) ==
  /\ i + 4 <= Len(b)
  /\ ToLower(b[i]) = "status"
  /\ b[i + 1] = "</span>"
  /\ b[i + 2] = "</strong>"
  /\ b[i + 3] = "</p>"
  /\ b[i + 4] = "</td>"

\* \s*<td[^>]*> after the label: the index of the <td>
CellStart(b, i) == SkipSpace(b, i + 5)

HasCell(b, i) ==
  /\ LabelAt(b, i)
  /\ CellStart(b, i) <= Len(b)
  /\ b[CellStart(b, i)] = "<td>"

\* first index >= j of b that is a tag (Len(b)+1 when there is none)
TextEnd(b, j) ==
  CHOOSE k \in j..(Len(b) + 1) :
    /\ \A m \in j..(k - 1) : ~IsTag(b[m])
    /\ (k = Len(b) + 1 \/ IsTag(b[k]))

\* <p[^>]*> : an opening <p ...> tag, the self-closing <p /> included
IsParagraphOpen(a) == a \in {"<p>", "<p/>"}

ParagraphStart(b, i) == SkipSpace(b, CellStart(b, i) + 1)

\* the primary pattern matches with its label at atom i
PrimaryAt(b, i) ==
  /\ HasCell(b, i)
  /\ LET k == ParagraphStart(b, i)
     IN /\ k <= Len(b)
        /\ IsParagraphOpen(b[k])
        /\ LET e == TextEnd(b, k + 1)
           IN e > k + 1 /\ e <= Len(b) /\ b[e] = "</p>"

PrimaryCapture(b, i) ==
  LET k == ParagraphStart(b, i)
  IN SubSeq(b, k + 1, TextEnd(b, k + 1) - 1)

\* the empty-value pattern: <p\s*\/> in the value cell
EmptyAt(b, i) ==
  /\ HasCell(b, i)
  /\ LET k == ParagraphStart(b, i)
     IN k <= Len(b) /\ b[k] = "<p/>"

\* the fallback pattern: everything up to the first </td>
FallbackAt(b, i) ==
  /\ HasCell(b, i)
  /\ \E e \in (CellStart(b, i) + 1)..Len(b) : b[e] = "</td>"

FallbackCapture(b, i) ==
  LET c == CellStart(b, i)
      e == CHOOSE x \in (c + 1)..Len(b) :
             /\ b[x] = "</td>"
             /\ \A y \in (c + 1)..(x - 1) : b[y] # "</td>"
  IN SubSeq(b, c + 1, e - 1)

\* String.prototype.match: the leftmost position where the pattern matches
\* (0: no match)
FirstPrimary(b) ==
  IF \E i \in 1..Len(b) : PrimaryAt(b, i)
  THEN CHOOSE i \in 1..Len(b) :
         PrimaryAt(b, i) /\ \A j \in 1..(i - 1) : ~PrimaryAt(b, j)
  ELSE 0

FirstEmpty(b) ==
  IF \E i \in 1..Len(b) : EmptyAt(b, i)
  THEN CHOOSE i \in 1..Len(b) :
         EmptyAt(b, i) /\ \A j \in 1..(i - 1) : ~EmptyAt(b, j)
  ELSE 0

FirstFallback(b) ==
  IF \E i \in 1..Len(b) : FallbackAt(b, i)
  THEN CHOOSE i \in 1..Len(b) :
         FallbackAt(b, i) /\ \A j \in 1..(i - 1) : ~FallbackAt(b, j)
  ELSE 0

\* fallback[1].replace(/<[^>]*>/g, "").trim()
StripTags(s) == trim(SelectSeq(s, NotTag))

\* the result of the sync path: null, or a string (possibly empty)
NoStatus == [null |-> TRUE, text |-> <<>>]
Status(s) == [null |-> FALSE, text |-> s]

\* extraction that goes on to the fallback when the value is <p />
extractStatus_noEmptyTest(b) ==
  IF FirstPrimary(b) # 0
  THEN Status(trim(PrimaryCapture(b, FirstPrimary(b))))
  ELSE IF FirstFallback(b) # 0
          /\ StripTags(FallbackCapture(b, FirstFallback(b))) # <<>>
  THEN Status(StripTags(FallbackCapture(b, FirstFallback(b))))
  ELSE NoStatus

\* adr-sync-emojis.ts extractStatus
extractStatus(b) ==
  IF FirstPrimary(b) # 0
  THEN Status(trim(PrimaryCapture(b, FirstPrimary(b))))
  ELSE IF FirstEmpty(b) # 0
  THEN NoStatus
  ELSE IF FirstFallback(b) # 0
          /\ StripTags(FallbackCapture(b, FirstFallback(b))) # <<>>
  THEN Status(StripTags(FallbackCapture(b, FirstFallback(b))))
  ELSE NoStatus

\* a test for null alone, which lets the empty string through
StatusFalsy_nullOnly(st) == st.null

\* if (!status): null and the empty string are falsy
StatusFalsy(st) == st.null \/ st.text = <<>>

\* the sentinel of the report path
Unknown == <<"Unknown">>

\* adr-report.ts extractStatus: the same patterns, "Unknown" for null
extractStatusReport(b) ==
  IF FirstPrimary(b) # 0
  THEN trim(PrimaryCapture(b, FirstPrimary(b)))
  ELSE IF FirstEmpty(b) # 0
  THEN Unknown
  ELSE IF FirstFallback(b) # 0
          /\ StripTags(FallbackCapture(b, FirstFallback(b))) # <<>>
  THEN StripTags(FallbackCapture(b, FirstFallback(b)))
  ELSE Unknown

(***************************************************************************)
(* getEmojiCodePoint, codePointToEmoji                                     *)
(***************************************************************************)
\* the own properties of STATUS_EMOJI_MAP
StatusEmojiKeys ==
  {<<"accepted">>, <<"approved">>, <<"proposal">>, <<"proposed">>,
   <<"pending", " ", "approval">>, <<"draft">>, <<"planning">>,
   <<"withdrawn">>, <<"rejected">>, <<"postponed">>}

StatusEmojiOwn(k) ==
  CASE k \in {<<"accepted">>, <<"approved">>} -> "2705"
    [] k \in {<<"proposal">>, <<"proposed">>,
              <<"pending", " ", "approval">>} -> "23f3"
    [] k \in {<<"draft">>, <<"planning">>} -> "1f5d2"
    [] k \in {<<"withdrawn">>, <<"rejected">>} -> "1f6ab"
    [] k = <<"postponed">> -> "270b"

\* members every object literal inherits from Object.prototype
InheritedFunctions ==
  {<<"constructor">>, <<"toString">>, <<"valueOf">>, <<"hasOwnProperty">>}

\* STATUS_EMOJI_MAP[k]: own property, else the prototype chain, else undefined
STATUS_EMOJI_MAP(k) ==
  IF k \in StatusEmojiKeys THEN StrVal(StatusEmojiOwn(k))
  ELSE IF k \in InheritedFunctions THEN FnVal(k[1])
  ELSE IF k = <<"__proto__">> THEN ObjectPrototype
  ELSE Undefined

\* STATUS_EMOJI_MAP[status.toLowerCase().trim()] || null
getEmojiCodePoint(status) ==
  LET found == STATUS_EMOJI_MAP(trim(toLowerCase(status)))
  IN IF Truthy(found) THEN found ELSE Null

NaN == -1

\* parseInt(hex, 16) of the argument's string form: the leading hex digits
\* ("function ..." starts with the hex digit f; "[object Object]" with none)
parseInt16(hex) ==
  CASE hex.t = "str" /\ hex.v = "2705" -> 9989
    [] hex.t = "str" /\ hex.v = "23f3" -> 9203
    [] hex.t = "str" /\ hex.v = "1f5d2" -> 128466
    [] hex.t = "str" /\ hex.v = "1f6ab" -> 128683
    [] hex.t = "str" /\ hex.v = "270b" -> 9995
    [] hex.t = "fn" -> 15
    [] OTHER -> NaN

\* String.fromCodePoint throws a RangeError on NaN
codePointToEmojiThrows(hex) == parseInt16(hex) = NaN

\* String.fromCodePoint(parseInt(hex, 16)): the code points of the result
codePointToEmoji(hex) == <<parseInt16(hex)>>

(***************************************************************************)
(* getStatusEmoji of adr-report.ts: the code points of the emoji it returns *)
(***************************************************************************)
\* U+FE0F, the variation selector that asks for emoji presentation
VariationSelector == 65039
\* the question mark returned for any other status
Placeholder == <<10067>>

getStatusEmoji(status) ==
  LET st == trim(toLowerCase(status))
  IN IF st \in {<<"accepted">>, <<"approved">>} THEN <<9989>>
     ELSE IF st \in {<<"proposal">>, <<"proposed">>,
                      <<"pending", " ", "approval">>} THEN <<9203>>
     ELSE IF st = <<"draft">> THEN <<128466, VariationSelector>>
     ELSE IF st \in {<<"withdrawn">>, <<"rejected">>} THEN <<128683>>
     ELSE IF st = <<"postponed">> THEN <<9995>>
     ELSE Placeholder

(***************************************************************************)
(* isAdrPage                                                               *)
(***************************************************************************)
Digits == {"3", "4", "12"}

\* /ADR-\d+/ (case-sensitive)
HasAdrNumber(title) ==
  \E i \in 1..(Len(title) - 1) : title[i] = "ADR-" /\ title[i + 1] \in Digits

\* /Reserved/i : the word occurs anywhere, inside a longer word too
HasReserved(title) ==
  \E i \in 1..Len(title) : ToLower(title[i]) \in {"reserved", "unreserved"}

\* /Design Review/i
HasDesignReview(title) ==
  \E i \in 1..(Len(title) - 2) :
    /\ ToLower(title[i]) = "design"
    /\ title[i + 1] = " "
    /\ ToLower(title[i + 2]) = "review"

\* the filter without its Reserved test
isAdrPage_keepsReserved(title) ==
  /\ HasAdrNumber(title)
  /\ ~HasDesignReview(title)

isAdrPage(title) ==
  /\ HasAdrNumber(title)
  /\ ~HasReserved(title)
  /\ ~HasDesignReview(title)

(***************************************************************************)
(* Documents of the store.  A document kind fixes a title and a body.      *)
(***************************************************************************)
TitleAdr == <<"ADR-", "3", ":", " ", "Use", " ", "X">>

\* one row of the card table: the styled label cell, then the value cell
Row(label, cell) ==
  <<"<tr>", "<td>", "<p>", "<strong>", "<span>", label,
    "</span>", "</strong>", "</p>", "</td>">> \o cell \o <<"</tr>">>

PlainCell(text) == <<" ", "<td>", "<p>">> \o text \o <<"</p>", "</td>">>

BodyWith(text) ==
  Row("Affects", PlainCell(<<"Team">>)) \o Row("Status", PlainCell(text))

DocKinds ==
  {"accepted", "onboarding", "emptyP", "noLabel", "blank", "reserved",
   "designReview", "noAdr", "constructor", "proto", "filler"}

Title(k) ==
  CASE k = "reserved" -> <<"ADR-", "4", ":", " ", "RESERVED", " ", "Range">>
    [] k = "designReview" -> <<"ADR-", "12", " ", "design", " ", "REVIEW">>
    [] k = "noAdr" -> <<"adr-", "3", ":", " ", "Use", " ", "X">>
    [] k = "filler" -> <<"Meeting", " ", "notes">>
    [] OTHER -> TitleAdr

Body(k) ==
  CASE k = "accepted" -> BodyWith(<<" ", "Accepted", " ">>)
    [] k = "onboarding" ->
         Row("Status", <<"<td>", "<p>", "<strong>", "Onboarding",
                         "</strong>", "</p>", "</td>">>)
    [] k = "emptyP" -> Row("STATUS", <<" ", "<td>", " ", "<p/>", "</td>">>)
    [] k = "noLabel" -> Row("Affects", PlainCell(<<"Team">>))
    [] k = "blank" -> BodyWith(<<" ">>)
    [] k = "constructor" -> BodyWith(<<"Constructor">>)
    [] k = "proto" -> BodyWith(<<"__proto__">>)
    [] k = "filler" -> <<>>
    [] OTHER -> BodyWith(<<"Accepted">>)

(***************************************************************************)
(* The store's properties                                                  *)
(***************************************************************************)
Absent == [exists |-> FALSE, value |-> Undefined, version |-> 0]
Prop(val, ver) == [exists |-> TRUE, value |-> val, version |-> ver]

\* values a property may hold before a run; version 0: no version metadata
InitValues == {StrVal("2705"), NumVal("2705"), StrVal("1f5d2")}
InitVersions == {0, 1}
InitProps == {Absent} \cup {Prop(v, n) : v \in InitValues, n \in InitVersions}
FleetProps == {Absent, Prop(StrVal("1f5d2"), 1)}

\* values an external writer sets
ExtValues == {StrVal("1f680"), StrVal("2705")}

\* sizes the store may cap a page at
PageCaps == {1, 25, limit}

VARIABLES
  collection,     \* the documents under the parent, in store order (kinds)
  pageCap,        \* the most results the store puts on a page
  store,          \* store[id][key]: the property of document id
  store0,         \* the store as the run found it
  dryRun,         \* process.argv.includes("--dry-run")
  extLeft,        \* writes the external writer may still make
  touched,        \* properties the external writer wrote during the run
  pc,             \* where syncEmojis stands
  start,          \* let start
  allPages,       \* const allPages (document ids)
  adrPages,       \* const adrPages
  idx,            \* position of the for loop in adrPages
  key,            \* the key of the upsertProperty call in progress
  currentVersion, \* const currentVersion of that call
  ok1,            \* const ok1
  wrote1,         \* whether the first call changed the store
  updated, skipped, unchanged, errors,
  out,            \* the lines written so far (stdout and stderr)
  calls,          \* the store calls issued so far
  results,        \* per classified document: the counter it incremented
  run,            \* the number of this run of the script
  first,          \* the results of the run before this one
  answers,        \* per store call issued: its response
  input,          \* a text handed to one of the helper functions
  synced,         \* what extractStatus of the sync script returned for it
  reported,       \* what extractStatus of the report script returned for it
  mapped,         \* what getEmojiCodePoint returned for it
  shown,          \* what getStatusEmoji of the report script returned for it
  emojiValue      \* the value handed to setEmoji of confluence-properties.ts

vars ==
  <<collection, pageCap, store, store0, dryRun, extLeft, touched, pc, start,
    allPages, adrPages, idx, key, currentVersion, ok1, wrote1,
    updated, skipped, unchanged, errors, out, calls, results, run, first,
    answers, input, synced, reported, mapped, shown, emojiValue>>

Min(a, b) == IF a < b THEN a ELSE b
Max(a, b) == IF a < b THEN b ELSE a


(***************************************************************************)
(* Output lines and store calls                                            *)
(***************************************************************************)
Flag(b) == IF b THEN "true" ELSE "false"

Line(kind, doc, sym, status, flags, nums) ==
  [kind |-> kind, doc |-> doc, sym |-> sym, status |-> status,
   flags |-> flags, nums |-> nums]

\* console.log(dryRun ? "DRY RUN ..." : "Syncing ADR emojis...")
BannerLine(dry) == Line("banner", 0, <<>>, <<>>, <<Flag(dry)>>, <<>>)
\* exitWithError: console.error(`Error: ${message}`)
ErrorLine == Line("error", 0, <<>>, <<>>, <<>>, <<>>)
\* console.log(`Found ${adrPages.length} ADR pages`)
FoundLine(n) == Line("found", 0, <<>>, <<>>, <<>>, <<n>>)
\* `${page.title}: Could not extract status - skipping`
NoStatusLine(doc) == Line("noStatus", doc, <<>>, <<>>, <<>>, <<>>)
\* `${page.title}: Non-standard status "${status}" - skipping`
NonStandardLine(doc, status) ==
  Line("nonStandard", doc, <<>>, status, <<>>, <<>>)
\* a dry-run line that leaves the symbol out
DryLine_noSymbol(doc, emoji, status) ==
  Line("ok", doc, <<>>, status, <<>>, <<>>)

\* dry run: `${emoji}  ${page.title}  ->  ${status}`
DryLine(doc, emoji, status) == Line("ok", doc, emoji, status, <<>>, <<>>)
\* both calls succeeded: `${emoji}  ${page.title}  ->  ${status}`
OkLine(doc, emoji, status) == Line("ok", doc, emoji, status, <<>>, <<>>)
\* `${page.title}: Partial update (published=${ok1}, draft=${ok2})`
PartialLine(doc, o1, o2) ==
  Line("partial", doc, <<>>, <<>>, <<Flag(o1), Flag(o2)>>, <<>>)
\* `${page.title}: Failed to update emoji`
FailedLine(doc) == Line("failed", doc, <<>>, <<>>, <<>>, <<>>)
\* `Done!  Updated: .. | Skipped: .. | Unchanged: .. | Errors: ..`
TallyLine(u, s, n, e) == Line("tally", 0, <<>>, <<>>, <<>>, <<u, s, n, e>>)

Call(op, doc, k, val, ver, st) ==
  [op |-> op, doc |-> doc, key |-> k, value |-> val, version |-> ver,
   start |-> st]

\* confluenceLegacyGet("content/search", {limit, start, ...})
SearchCall(st) == Call("search", 0, "", Undefined, 0, st)
\* confluenceGet(`pages/${pageId}/properties`, { key })
ListCall(doc, k) == Call("list", doc, k, Undefined, 0, 0)
\* confluencePost(`pages/${pageId}/properties`, { key, value })
CreateCall(doc, k, val) == Call("create", doc, k, JsonValue(val), 0, 0)
\* confluenceGet(`pages/${pageId}/properties/${existing.id}`)
DetailCall(doc, k) == Call("detail", doc, k, Undefined, 0, 0)
\* confluencePut(..., { key, value, version: { number: currentVersion + 1 } })
UpdateCall(doc, k, val, ver) == Call("update", doc, k, JsonValue(val), ver, 0)

(***************************************************************************)
(* The store's answers                                                     *)
(***************************************************************************)
\* a response: { ok, data }; data: the property a list lookup or a detail
\* fetch returned (Absent for the other calls and for a failed one)
Resp(ok, data) == [ok |-> ok, data |-> IF ok THEN data ELSE Absent]

\* the number of results on the page that starts at offset st
PageSize(st) == Max(0, Min(Min(limit, pageCap), Len(collection) - st))
PageResults(st) == [i \in 1..PageSize(st) |-> st + i]
\* _links.next: documents remain after this page
PageHasNext(st) == st + PageSize(st) < Len(collection)
\* the offset the next link points at: the first document not yet returned
NextLinkStart(st) == st + PageSize(st)

\* create is refused when the key already exists on the document
StoreAcceptsCreate(p) == ~p.exists
\* update is refused unless it carries the stored version + 1
StoreAcceptsUpdate(p, ver) == p.exists /\ ver = p.version + 1

(***************************************************************************)
(* syncEmojis                                                              *)
(***************************************************************************)
\* per document kind: the title filter, the extracted status, its code
KindIsAdr == [k \in DocKinds |-> isAdrPage(Title(k))]
KindStatus == [k \in DocKinds |-> extractStatus(Body(k))]
KindCode == [k \in DocKinds |-> getEmojiCodePoint(KindStatus[k].text)]

IsAdrId(id) == KindIsAdr[collection[id]]

\* the loop run from the last page to the first
CurPage_reversed == adrPages[Len(adrPages) + 1 - idx]

CurPage == adrPages[idx]
CurStatus == KindStatus[collection[CurPage]]
CurCode == KindCode[collection[CurPage]]

\* the first position the loop requests after offset st
NextStart(st) == st + limit

\* two failed calls counted like two successful ones
Classify_failedIsUpdated(o1, o2) == IF o1 = o2 THEN "updated" ELSE "errors"

\* if (ok1 && ok2) updated++ else if (ok1 || ok2) errors++ else errors++
Classify(o1, o2) == IF o1 /\ o2 THEN "updated" ELSE "errors"

ResultLine(doc, o1, o2) ==
  IF o1 /\ o2 THEN OkLine(doc, codePointToEmoji(CurCode), CurStatus.text)
  ELSE IF o1 \/ o2 THEN PartialLine(doc, o1, o2)
  ELSE FailedLine(doc)

\* upsertProperty without the test that skips the update
ValueMatches_never(existingValue, value) == FALSE

\* a comparison without the String() conversion
ValueMatches_strict(existingValue, value) == existingValue = value

\* String(existing.value) === value
ValueMatches(existingValue, value) ==
  StrictEqualsString(String(existingValue), value)

\* version: { number: currentVersion + 1 }
UpdateVersion(cv) == cv + 1

\* a counter that goes up by two
Bump_double(counter, class) == IF counter = class THEN 2 ELSE 0

Bump(counter, class) == IF counter = class THEN 1 ELSE 0

\* a classification that keeps its line back
Classified_noLine(class, line, o1, o2, w1, w2) ==
  /\ out' = out
  /\ updated' = updated + (IF class = "updated" THEN 1 ELSE 0)
  /\ skipped' = skipped + (IF class = "skipped" THEN 1 ELSE 0)
  /\ unchanged' = unchanged
  /\ errors' = errors + (IF class = "errors" THEN 1 ELSE 0)
  /\ results' = Append(results,
       [doc |-> adrPages[idx], class |-> class,
        reconciled |-> ~dryRun /\ class # "skipped",
        ok1 |-> o1, ok2 |-> o2, wrote1 |-> w1, wrote2 |-> w2])
  /\ idx' = idx + 1
  /\ pc' = "loop"

\* one document classified: its line, its counter, the loop moves on
Classified(class, line, o1, o2, w1, w2) ==
  /\ out' = Append(out, line)
  /\ updated' = updated + Bump("updated", class)
  /\ skipped' = skipped + Bump("skipped", class)
  /\ unchanged' = unchanged + Bump("unchanged", class)
  /\ errors' = errors + Bump("errors", class)
  /\ results' = Append(results,
       [doc |-> CurPage, class |-> class, reconciled |-> ~dryRun /\ class # "skipped",
        ok1 |-> o1, ok2 |-> o2, wrote1 |-> w1, wrote2 |-> w2])
  /\ idx' = idx + 1
  /\ pc' = "loop"

\* a loop that gives the document up when the published call has failed
Return_stopsAfterFailure(ok, wrote) ==
  IF key = KeyPublished /\ ok
  THEN /\ ok1' = ok
       /\ wrote1' = wrote
       /\ key' = KeyDraft
       /\ pc' = "list"
       /\ UNCHANGED <<idx, out, updated, skipped, unchanged, errors, results>>
  ELSE IF key = KeyPublished
  THEN /\ Classified("errors", FailedLine(CurPage), FALSE, FALSE, FALSE, FALSE)
       /\ UNCHANGED <<ok1, wrote1, key>>
  ELSE /\ Classified(Classify(ok1, ok), ResultLine(CurPage, ok1, ok),
                     ok1, ok, wrote1, wrote)
       /\ UNCHANGED <<ok1, wrote1, key>>

\* upsertProperty returns ok; wrote: the store took a write of this call
Return(ok, wrote) ==
  IF key = KeyPublished
  THEN /\ ok1' = ok
       /\ wrote1' = wrote
       /\ key' = KeyDraft
       /\ pc' = "list"
       /\ UNCHANGED <<idx, out, updated, skipped, unchanged, errors, results>>
  ELSE /\ Classified(Classify(ok1, ok), ResultLine(CurPage, ok1, ok),
                     ok1, ok, wrote1, wrote)
       /\ UNCHANGED <<ok1, wrote1, key>>

\* the helper functions called on their own
helpers == <<input, synced, reported, mapped, shown, emojiValue>>

env == <<collection, pageCap, store0, dryRun, run, first, helpers>>

\* the store calls and their responses
log == <<calls, answers>>

\* the banner, printed before anything is fetched
Banner ==
  /\ pc = "start"
  /\ out' = Append(out, BannerLine(dryRun))
  /\ pc' = "collect"
  /\ UNCHANGED <<env, store, extLeft, touched, start, allPages, adrPages, idx,
                 key, currentVersion, ok1, wrote1, updated, skipped,
                 unchanged, errors, log, results>>

\* a failed page request that is asked again instead of ending the run
SearchFailed_retries ==
  /\ out' = out
  /\ pc' = "collect"
  /\ UNCHANGED <<allPages, start>>

\* if (!response.ok) exitWithError(...): the message, then process.exit(1)
SearchFailed ==
  /\ out' = Append(out, ErrorLine)
  /\ pc' = "aborted"
  /\ UNCHANGED <<allPages, start>>

\* one turn of the while (true) loop: a page request and its response
FetchPage ==
  /\ pc = "collect"
  /\ calls' = Append(calls, SearchCall(start))
  /\ \E ok \in BOOLEAN :
       /\ answers' = Append(answers, Resp(ok, Absent))
       /\ IF ~ok
          THEN SearchFailed
          ELSE /\ allPages' = allPages \o PageResults(start)
               /\ IF PageHasNext(start)
                  THEN start' = NextStart(start) /\ pc' = "collect"
                  ELSE start' = start /\ pc' = "filter"
               /\ out' = out
  /\ UNCHANGED <<env, store, extLeft, touched, adrPages, idx, key,
                 currentVersion, ok1, wrote1, updated, skipped, unchanged,
                 errors, results>>

\* allPages.filter(isAdrPage), "Found n ADR pages", the counters
Filter ==
  /\ pc = "filter"
  /\ adrPages' = SelectSeq(allPages, IsAdrId)
  /\ out' = Append(out, FoundLine(Len(adrPages')))
  /\ updated' = 0 /\ skipped' = 0 /\ unchanged' = 0 /\ errors' = 0
  /\ idx' = 1
  /\ pc' = "loop"
  /\ UNCHANGED <<env, store, extLeft, touched, start, allPages, key,
                 currentVersion, ok1, wrote1, log, results>>

\* a loop head that reconciles in a dry run too
ProcessDoc_noDryRun ==
  /\ pc = "loop"
  /\ idx <= Len(adrPages)
  /\ IF StatusFalsy(CurStatus)
     THEN /\ Classified("skipped", NoStatusLine(CurPage),
                        FALSE, FALSE, FALSE, FALSE)
          /\ UNCHANGED <<key, ok1, wrote1>>
     ELSE IF ~Truthy(CurCode)
     THEN /\ Classified("skipped", NonStandardLine(CurPage, CurStatus.text),
                        FALSE, FALSE, FALSE, FALSE)
          /\ UNCHANGED <<key, ok1, wrote1>>
     ELSE /\ key' = KeyPublished
          /\ pc' = "list"
          /\ ok1' = FALSE /\ wrote1' = FALSE
          /\ UNCHANGED <<idx, out, updated, skipped, unchanged, errors,
                         results>>
  /\ UNCHANGED <<env, store, extLeft, touched, start, allPages, adrPages,
                 currentVersion, log>>

\* the head of the for loop, up to the first store call of the document
ProcessDoc ==
  /\ pc = "loop"
  /\ idx <= Len(adrPages)
  /\ IF StatusFalsy(CurStatus)
     THEN /\ Classified("skipped", NoStatusLine(CurPage),
                        FALSE, FALSE, FALSE, FALSE)
          /\ UNCHANGED <<key, ok1, wrote1>>
     ELSE IF ~Truthy(CurCode)
     THEN /\ Classified("skipped", NonStandardLine(CurPage, CurStatus.text),
                        FALSE, FALSE, FALSE, FALSE)
          /\ UNCHANGED <<key, ok1, wrote1>>
     ELSE IF codePointToEmojiThrows(CurCode)
     THEN /\ pc' = "crashed"
          /\ UNCHANGED <<idx, out, updated, skipped, unchanged, errors,
                         results, key, ok1, wrote1>>
     ELSE IF dryRun
     THEN /\ Classified("updated",
                        DryLine(CurPage, codePointToEmoji(CurCode),
                                CurStatus.text),
                        FALSE, FALSE, FALSE, FALSE)
          /\ UNCHANGED <<key, ok1, wrote1>>
     ELSE /\ key' = KeyPublished
          /\ pc' = "list"
          /\ ok1' = FALSE /\ wrote1' = FALSE
          /\ UNCHANGED <<idx, out, updated, skipped, unchanged, errors,
                         results>>
  /\ UNCHANGED <<env, store, extLeft, touched, start, allPages, adrPages,
                 currentVersion, log>>

\* upsertProperty: the list lookup and what follows it without a store call
ListResp ==
  /\ pc = "list"
  /\ calls' = Append(calls, ListCall(CurPage, key))
  /\ \E ok \in BOOLEAN :
       LET existing == store[CurPage][key]
       IN /\ answers' = Append(answers, Resp(ok, existing))
          /\ IF ~ok THEN Return(FALSE, FALSE)
             ELSE IF ~existing.exists
             THEN /\ pc' = "create"
                  /\ UNCHANGED <<ok1, wrote1, key, idx, out, updated,
                                 skipped, unchanged, errors, results>>
             ELSE IF ValueMatches(existing.value, CurCode)
             THEN Return(TRUE, FALSE)
             ELSE /\ pc' = "detail"
                  /\ UNCHANGED <<ok1, wrote1, key, idx, out, updated,
                                 skipped, unchanged, errors, results>>
  /\ UNCHANGED <<env, store, extLeft, touched, start, allPages, adrPages,
                 currentVersion>>

\* upsertProperty: the create call; return createResp.ok
CreateResp ==
  /\ pc = "create"
  /\ calls' = Append(calls, CreateCall(CurPage, key, CurCode))
  /\ \E ok \in BOOLEAN :
       LET accepted == ok /\ StoreAcceptsCreate(store[CurPage][key])
       IN /\ store' = IF accepted
                      THEN [store EXCEPT ![CurPage][key] =
                              Prop(JsonValue(CurCode), 1)]
                      ELSE store
          /\ answers' = Append(answers, Resp(accepted, Absent))
          /\ Return(accepted, accepted)
  /\ UNCHANGED <<env, extLeft, touched, start, allPages, adrPages,
                 currentVersion>>

\* a detail fetch that goes on to the update without a version
DetailResp_noVersionTest ==
  /\ pc = "detail"
  /\ calls' = Append(calls, DetailCall(CurPage, key))
  /\ answers' = Append(answers, Resp(TRUE, store[CurPage][key]))
  /\ currentVersion' = store[CurPage][key].version
  /\ pc' = "put"
  /\ UNCHANGED <<ok1, wrote1, key, idx, out, updated, skipped, unchanged,
                 errors, results>>
  /\ UNCHANGED <<env, store, extLeft, touched, start, allPages, adrPages>>

\* upsertProperty: the detail fetch and the version check
DetailResp ==
  /\ pc = "detail"
  /\ calls' = Append(calls, DetailCall(CurPage, key))
  /\ \E ok \in BOOLEAN :
       LET version == store[CurPage][key].version
       IN /\ answers' = Append(answers, Resp(ok, store[CurPage][key]))
          /\ IF ~ok \/ version = 0
             THEN Return(FALSE, FALSE) /\ UNCHANGED currentVersion
             ELSE /\ currentVersion' = version
                  /\ pc' = "put"
                  /\ UNCHANGED <<ok1, wrote1, key, idx, out, updated,
                                 skipped, unchanged, errors, results>>
  /\ UNCHANGED <<env, store, extLeft, touched, start, allPages, adrPages>>

\* upsertProperty: the update call; return updateResp.ok
PutResp ==
  /\ pc = "put"
  /\ calls' = Append(calls, UpdateCall(CurPage, key, CurCode,
                                       UpdateVersion(currentVersion)))
  /\ \E ok \in BOOLEAN :
       LET accepted == ok /\ StoreAcceptsUpdate(store[CurPage][key],
                                                UpdateVersion(currentVersion))
       IN /\ store' = IF accepted
                      THEN [store EXCEPT ![CurPage][key] =
                              Prop(JsonValue(CurCode),
                                   UpdateVersion(currentVersion))]
                      ELSE store
          /\ answers' = Append(answers, Resp(accepted, Absent))
          /\ Return(accepted, accepted)
  /\ UNCHANGED <<env, extLeft, touched, start, allPages, adrPages,
                 currentVersion>>

\* after the loop: the tally line
Tally ==
  /\ pc = "loop"
  /\ idx > Len(adrPages)
  /\ out' = Append(out, TallyLine(updated, skipped, unchanged, errors))
  /\ pc' = "done"
  /\ UNCHANGED <<env, store, extLeft, touched, start, allPages, adrPages, idx,
                 key, currentVersion, ok1, wrote1, updated, skipped,
                 unchanged, errors, log, results>>

\* another client of the store writes the property under reconciliation
ExternalWrite ==
  /\ extLeft > 0
  /\ pc \in {"list", "create", "detail", "put"}
  /\ \E val \in ExtValues :
       store' = [store EXCEPT ![CurPage][key] =
                   Prop(val, store[CurPage][key].version + 1)]
  /\ extLeft' = extLeft - 1
  /\ touched' = touched \cup {<<CurPage, key>>}
  /\ UNCHANGED <<env, pc, start, allPages, adrPages, idx, key,
                 currentVersion, ok1, wrote1, updated, skipped, unchanged,
                 errors, out, log, results>>

(***************************************************************************)
(* Initial states                                                          *)
(***************************************************************************)
FleetKinds == DocKinds \ {"filler"}

Fresh ==
  /\ store0 = store
  /\ touched = {}
  /\ run = 1
  /\ first = <<>>
  /\ pc = "start"
  /\ start = 0
  /\ allPages = <<>> /\ adrPages = <<>>
  /\ idx = 0
  /\ key = KeyPublished
  /\ currentVersion = 0
  /\ ok1 = FALSE /\ wrote1 = FALSE
  /\ updated = 0 /\ skipped = 0 /\ unchanged = 0 /\ errors = 0
  /\ out = <<>> /\ calls = <<>> /\ results = <<>>
  /\ answers = <<>>

\* one document with a recognised status; its two properties in any state
InitReconcile ==
  /\ collection = <<"accepted">>
  /\ pageCap = limit
  /\ store \in [1..1 -> [Keys -> InitProps]]
  /\ dryRun \in BOOLEAN
  /\ extLeft \in 0..MaxExt

\* a fleet of documents of any kinds; every property in the same state
InitFleet ==
  /\ \E n \in 0..MaxDocs : collection \in [1..n -> FleetKinds]
  /\ pageCap \in {1, limit}
  /\ \E p \in FleetProps :
       store = [i \in 1..Len(collection) |-> [k \in Keys |-> p]]
  /\ dryRun \in BOOLEAN
  /\ extLeft = 0

\* a large collection of pages that are not ADRs
InitPaging ==
  /\ \E n \in (MaxDocs + 1)..MaxColl : collection = [i \in 1..n |-> "filler"]
  /\ pageCap \in PageCaps
  /\ store = [i \in 1..Len(collection) |-> [k \in Keys |-> Absent]]
  /\ dryRun \in BOOLEAN
  /\ extLeft = 0

\* no helper function is called on its own
NoInput == [kind |-> "none", text |-> <<>>]
NoHelper ==
  /\ input = NoInput
  /\ synced = <<>> /\ reported = <<>> /\ mapped = <<>> /\ shown = <<>>
  /\ emojiValue = Undefined

Init == (InitReconcile \/ InitFleet \/ InitPaging) /\ Fresh /\ NoHelper

Next ==
  \/ Banner
  \/ FetchPage
  \/ Filter
  \/ ProcessDoc
  \/ ListResp
  \/ CreateResp
  \/ DetailResp
  \/ PutResp
  \/ Tally
  \/ ExternalWrite

Spec == Init /\ [][Next]_vars

\* the steps of the script itself: every awaited store call returns, and the
\* single thread of the script then takes its next step
Program ==
  \/ Banner
  \/ FetchPage
  \/ Filter
  \/ ProcessDoc
  \/ ListResp
  \/ CreateResp
  \/ DetailResp
  \/ PutResp
  \/ Tally

SpecLive == Init /\ [][Next]_vars /\ WF_vars(Program)

(***************************************************************************)
(* The script run again over the same store                                *)
(***************************************************************************)
\* a finished run is followed by a new process with the same arguments
Restart ==
  /\ pc = "done"
  /\ run < MaxRuns
  /\ run' = run + 1
  /\ first' = results
  /\ store0' = store
  /\ touched' = {}
  /\ pc' = "start"
  /\ start' = 0
  /\ allPages' = <<>> /\ adrPages' = <<>>
  /\ idx' = 0
  /\ key' = KeyPublished
  /\ currentVersion' = 0
  /\ ok1' = FALSE /\ wrote1' = FALSE
  /\ updated' = 0 /\ skipped' = 0 /\ unchanged' = 0 /\ errors' = 0
  /\ out' = <<>> /\ calls' = <<>> /\ results' = <<>>
  /\ answers' = <<>>
  /\ UNCHANGED <<collection, pageCap, store, dryRun, extLeft, helpers>>

\* one document of any kind, or the document of InitReconcile
InitSingle ==
  /\ \E k \in FleetKinds : collection = <<k>>
  /\ pageCap = limit
  /\ \E p \in FleetProps :
       store = [i \in 1..Len(collection) |-> [k \in Keys |-> p]]
  /\ dryRun \in BOOLEAN
  /\ extLeft = 0

InitTwice == (InitReconcile \/ InitSingle) /\ Fresh /\ NoHelper

NextTwice == Next \/ Restart

SpecTwice == InitTwice /\ [][NextTwice]_vars

(***************************************************************************)
(* The helper functions called on their own                                *)
(***************************************************************************)
SeqsUpTo(A, n) == UNION {[1..k -> A] : k \in 0..n}

\* the ten words of the table, in several letter cases
WordForms ==
  {<<"accepted">>, <<"Accepted">>, <<"ACCEPTED">>, <<"approved">>,
   <<"Approved">>, <<"proposal">>, <<"Proposal">>, <<"proposed">>,
   <<"Proposed">>, <<"pending", " ", "approval">>,
   <<"Pending", " ", "Approval">>, <<"draft">>, <<"Draft">>, <<"DRAFT">>,
   <<"planning">>, <<"Planning">>, <<"withdrawn">>, <<"Withdrawn">>,
   <<"rejected">>, <<"Rejected">>, <<"postponed">>, <<"Postponed">>}

\* strings that are no word of the table
OtherForms ==
  {<<>>, <<"constructor">>, <<"Constructor">>, <<"toString">>, <<"valueOf">>,
   <<"hasOwnProperty">>, <<"__proto__">>, <<"onboarding">>, <<"Onboarding">>,
   <<"pending">>, <<"pending", "\t", "approval">>,
   <<"accepted", " ", "draft">>, <<"Unknown">>}

StatusInputs ==
  {l \o w \o t : l \in SeqsUpTo(SpaceAtoms, MaxPad),
                 w \in WordForms \cup OtherForms,
                 t \in SeqsUpTo(SpaceAtoms, MaxPad)}

\* what may follow the <td> of the value cell
CellAtoms == {" ", "<p>", "<p/>", "</p>", "</td>", "Draft"}

\* a Status row whose value cell is any text over CellAtoms, alone or
\* followed by a second Status row with a plain value
MarkupInputs ==
  {Row("Status", lead \o <<"<td>">> \o inner) :
     lead \in {<<>>, <<" ">>}, inner \in SeqsUpTo(CellAtoms, MaxCell)}
  \cup {Row("Status", <<"<td>">> \o inner)
          \o Row("status", PlainCell(<<"Accepted">>)) :
        inner \in SeqsUpTo(CellAtoms, MaxCell)}
  \cup {Body(k) : k \in DocKinds}
  \cup {Row("Status", <<"<p>", "Draft", "</p>">>)}

HelperInputs ==
  {[kind |-> "status", text |-> t] : t \in StatusInputs}
  \cup {[kind |-> "markup", text |-> t] : t \in MarkupInputs}

syncVars ==
  <<collection, pageCap, store, store0, dryRun, extLeft, touched, pc, start,
    allPages, adrPages, idx, key, currentVersion, ok1, wrote1, updated,
    skipped, unchanged, errors, out, calls, results, run, first, answers,
    emojiValue>>

\* getEmojiCodePoint(status)
CallGetEmojiCodePoint ==
  /\ input.kind = "status"
  /\ mapped = <<>>
  /\ mapped' = <<getEmojiCodePoint(input.text)>>
  /\ UNCHANGED <<syncVars, input, synced, reported, shown>>

\* getStatusEmoji(status) of adr-report.ts
CallGetStatusEmoji ==
  /\ input.kind = "status"
  /\ shown = <<>>
  /\ shown' = <<getStatusEmoji(input.text)>>
  /\ UNCHANGED <<syncVars, input, synced, reported, mapped>>

\* extractStatus(body) of adr-sync-emojis.ts
CallExtractStatus ==
  /\ input.kind = "markup"
  /\ synced = <<>>
  /\ synced' = <<extractStatus(input.text)>>
  /\ UNCHANGED <<syncVars, input, reported, mapped, shown>>

\* extractStatus(body) of adr-report.ts
CallExtractStatusReport ==
  /\ input.kind = "markup"
  /\ reported = <<>>
  /\ reported' = <<extractStatusReport(input.text)>>
  /\ UNCHANGED <<syncVars, input, synced, mapped, shown>>

InitHelpers ==
  /\ collection = <<>>
  /\ pageCap = limit
  /\ store = <<>>
  /\ dryRun = FALSE
  /\ extLeft = 0
  /\ Fresh
  /\ input \in HelperInputs
  /\ synced = <<>> /\ reported = <<>> /\ mapped = <<>> /\ shown = <<>>
  /\ emojiValue = Undefined

NextHelpers ==
  \/ CallGetEmojiCodePoint
  \/ CallGetStatusEmoji
  \/ CallExtractStatus
  \/ CallExtractStatusReport

SpecHelpers == InitHelpers /\ [][NextHelpers]_vars

(***************************************************************************)
(* confluence-properties.ts <pageId> set-emoji <value>                     *)
(***************************************************************************)
NoArg == "(no argument)"
\* process.argv[4]
Args == {"2705", "\"2705\"", "1f680", "null", NoArg}

\* JSON.parse(input) where the text is JSON, the text itself where it is not
parseMaybeJson(arg) ==
  CASE arg = NoArg -> Undefined
    [] arg = "2705" -> NumVal("2705")
    [] arg = "\"2705\"" -> StrVal("2705")
    [] arg = "null" -> Null
    [] OTHER -> StrVal(arg)

\* output({ pageId, emoji, properties: [...] }): the two version numbers
EmojiLine(v1, v2) == Line("emoji", 1, <<>>, <<>>, <<>>, <<v1, v2>>)

\* exitWithError: the message, then process.exit(1)
Exit ==
  /\ out' = Append(out, ErrorLine)
  /\ pc' = "exited"
  /\ UNCHANGED <<store, key, currentVersion>>

\* upsertProperty has returned: the next key, or the output
Upserted ==
  IF key = KeyPublished
  THEN /\ key' = KeyDraft
       /\ pc' = "fetchList"
       /\ out' = out
  ELSE /\ key' = key
       /\ pc' = "emojiDone"
       /\ out' = Append(out, EmojiLine(store'[1][KeyPublished].version,
                                       store'[1][KeyDraft].version))

\* what the steps of set-emoji leave alone
emojiFrame ==
  <<collection, pageCap, store0, dryRun, extLeft, touched, start, allPages,
    adrPages, idx, ok1, wrote1, updated, skipped, unchanged, errors, results,
    run, first, input, synced, reported, mapped, shown, emojiValue>>

\* setEmoji: the test of the value
SetEmoji ==
  /\ pc = "setEmoji"
  /\ IF emojiValue = Undefined
     THEN Exit
     ELSE /\ key' = KeyPublished
          /\ pc' = "fetchList"
          /\ UNCHANGED <<out, store, currentVersion>>
  /\ UNCHANGED <<emojiFrame, log>>

\* fetchPropertyDetails: the list lookup by key
FetchPropertyList ==
  /\ pc = "fetchList"
  /\ calls' = Append(calls, ListCall(1, key))
  /\ \E ok \in BOOLEAN :
       /\ answers' = Append(answers, Resp(ok, store[1][key]))
       /\ IF ~ok THEN Exit
          ELSE /\ pc' = IF store[1][key].exists THEN "fetchDetail" ELSE "post"
               /\ UNCHANGED <<out, store, key, currentVersion>>
  /\ UNCHANGED emojiFrame

\* a detail fetch that ends the call when the value is already stored
FetchPropertyDetail_skipsEqual ==
  /\ pc = "fetchDetail"
  /\ calls' = Append(calls, DetailCall(1, key))
  /\ answers' = Append(answers, Resp(TRUE, store[1][key]))
  /\ IF store[1][key].value = emojiValue
     THEN Upserted /\ UNCHANGED <<store, currentVersion>>
     ELSE /\ currentVersion' = store[1][key].version
          /\ pc' = "putProp"
          /\ UNCHANGED <<out, store, key>>
  /\ UNCHANGED emojiFrame

\* fetchPropertyDetails: the detail fetch; upsertProperty: the version test
FetchPropertyDetail ==
  /\ pc = "fetchDetail"
  /\ calls' = Append(calls, DetailCall(1, key))
  /\ \E ok \in BOOLEAN :
       /\ answers' = Append(answers, Resp(ok, store[1][key]))
       /\ IF ~ok \/ store[1][key].version = 0
          THEN Exit
          ELSE /\ currentVersion' = store[1][key].version
               /\ pc' = "putProp"
               /\ UNCHANGED <<out, store, key>>
  /\ UNCHANGED emojiFrame

\* upsertProperty: the create call
CreateProperty ==
  /\ pc = "post"
  /\ calls' = Append(calls, CreateCall(1, key, emojiValue))
  /\ \E ok \in BOOLEAN :
       LET accepted == ok /\ StoreAcceptsCreate(store[1][key])
       IN /\ answers' = Append(answers, Resp(accepted, Absent))
          /\ IF ~accepted THEN Exit
             ELSE /\ store' = [store EXCEPT ![1][key] =
                                 Prop(JsonValue(emojiValue), 1)]
                  /\ Upserted
                  /\ UNCHANGED currentVersion
  /\ UNCHANGED emojiFrame

\* upsertProperty: the update call with version currentVersion + 1
UpdateProperty ==
  /\ pc = "putProp"
  /\ calls' = Append(calls, UpdateCall(1, key, emojiValue, currentVersion + 1))
  /\ \E ok \in BOOLEAN :
       LET accepted == ok /\ StoreAcceptsUpdate(store[1][key],
                                                currentVersion + 1)
       IN /\ answers' = Append(answers, Resp(accepted, Absent))
          /\ IF ~accepted THEN Exit
             ELSE /\ store' = [store EXCEPT ![1][key] =
                                 Prop(JsonValue(emojiValue),
                                      currentVersion + 1)]
                  /\ Upserted
                  /\ UNCHANGED currentVersion
  /\ UNCHANGED emojiFrame

\* the command run again with the same argument
SetEmojiAgain ==
  /\ pc = "emojiDone"
  /\ run < MaxRuns
  /\ run' = run + 1
  /\ store0' = store
  /\ pc' = "setEmoji"
  /\ key' = KeyPublished
  /\ currentVersion' = 0
  /\ out' = <<>> /\ calls' = <<>> /\ answers' = <<>>
  /\ UNCHANGED <<collection, pageCap, store, dryRun, extLeft, touched, start,
                 allPages, adrPages, idx, ok1, wrote1, updated, skipped,
                 unchanged, errors, results, first, input, synced, reported,
                 mapped, shown, emojiValue>>

\* one page whose two emoji properties are in any state; any argument
InitSetEmoji ==
  /\ collection = <<"accepted">>
  /\ pageCap = limit
  /\ store \in [1..1 -> [Keys -> InitProps]]
  /\ store0 = store
  /\ dryRun = FALSE
  /\ extLeft = 0 /\ touched = {}
  /\ run = 1 /\ first = <<>>
  /\ pc = "setEmoji"
  /\ start = 0
  /\ allPages = <<>> /\ adrPages = <<>>
  /\ idx = 0
  /\ key = KeyPublished
  /\ currentVersion = 0
  /\ ok1 = FALSE /\ wrote1 = FALSE
  /\ updated = 0 /\ skipped = 0 /\ unchanged = 0 /\ errors = 0
  /\ out = <<>> /\ calls = <<>> /\ results = <<>> /\ answers = <<>>
  /\ input = NoInput
  /\ synced = <<>> /\ reported = <<>> /\ mapped = <<>> /\ shown = <<>>
  /\ \E a \in Args : emojiValue = parseMaybeJson(a)

NextSetEmoji ==
  \/ SetEmoji
  \/ FetchPropertyList
  \/ FetchPropertyDetail
  \/ CreateProperty
  \/ UpdateProperty
  \/ SetEmojiAgain

SpecSetEmoji == InitSetEmoji /\ [][NextSetEmoji]_vars

(***************************************************************************)
(* Properties                                                              *)
(***************************************************************************)
IsDocLine(l) == l.doc # 0
\* the per-document lines written so far, in order
DocLines == SelectSeq(out, IsDocLine)

KindOf(doc) == collection[doc]
\* the code the document's status resolves to in the table, as a string
Target(doc) == StatusEmojiOwn(trim(toLowerCase(KindStatus[KindOf(doc)].text)))
\* the document's status is one of the ten words of the table
InTable(doc) ==
  /\ ~KindStatus[KindOf(doc)].null
  /\ trim(toLowerCase(KindStatus[KindOf(doc)].text)) \in StatusEmojiKeys

Untouched(doc) == \A k \in Keys : <<doc, k>> \notin touched

\* both property calls of the document returned success in this run
Reconciled(r) == r.reconciled /\ r.ok1 /\ r.ok2

CallsOf(doc) == {i \in 1..Len(calls) : calls[i].doc = doc}
WriteCalls == {i \in 1..Len(calls) : calls[i].op \in {"create", "update"}}

CountOf(class) == Cardinality({i \in 1..Len(results) : results[i].class = class})

\* C1 as claimed: after both property calls of a mapped document succeeded
\* (no external writer), both properties hold the target value itself, and
\* each version is the pre-run version + 1 where the value was different
\* before and the pre-run version where it was the same.
C1_BothHoldTarget ==
  \A i \in 1..Len(results) :
    LET r == results[i]
    IN (Reconciled(r) /\ InTable(r.doc) /\ Untouched(r.doc)) =>
         \A k \in Keys :
           LET now == store[r.doc][k]
               pre == store0[r.doc][k]
           IN /\ now.value = StrVal(Target(r.doc))
              /\ now.version =
                   IF pre.exists /\ pre.value = StrVal(Target(r.doc))
                   THEN pre.version ELSE pre.version + 1

\* C1 amended: after both property calls of a mapped document succeeded (no
\* external writer), the string form of both stored values is the target,
\* and each version is the pre-run version + 1 (1 for a property that did
\* not exist) where the string form of the value was different before, and
\* the pre-run version where it was already the target.
C1_BothReadAsTarget ==
  \A i \in 1..Len(results) :
    LET r == results[i]
    IN (Reconciled(r) /\ InTable(r.doc) /\ Untouched(r.doc)) =>
         \A k \in Keys :
           LET now == store[r.doc][k]
               pre == store0[r.doc][k]
           IN /\ now.exists
              /\ String(now.value) = Target(r.doc)
              /\ now.version =
                   IF pre.exists /\ String(pre.value) = Target(r.doc)
                   THEN pre.version ELSE pre.version + 1

\* one property was updated from version 1, the other already matched
C1_Witness ==
  \E i \in 1..Len(results) :
    /\ Reconciled(results[i]) /\ InTable(results[i].doc)
    /\ Untouched(results[i].doc)
    /\ store0[results[i].doc][KeyPublished] = Prop(StrVal("1f5d2"), 1)
    /\ store[results[i].doc][KeyPublished] = Prop(StrVal("2705"), 2)
    /\ store0[results[i].doc][KeyDraft] = Prop(NumVal("2705"), 1)
    /\ store[results[i].doc][KeyDraft] = Prop(NumVal("2705"), 1)

\* C2 as claimed: in the second of two non-dry runs with no external change,
\* every document that the first run counted updated or unchanged is counted
\* unchanged, and the second run issues no create and no update call.
C2_SecondRunUnchanged ==
  (run = 2 /\ ~dryRun /\ touched = {} /\ pc = "done") =>
    /\ \A i \in 1..Len(results) :
         (i <= Len(first) /\ first[i].class \in {"updated", "unchanged"}
          /\ Untouched(results[i].doc)) =>
           results[i].class = "unchanged"
    /\ WriteCalls = {}

\* C3 as claimed: a document whose two calls succeed is counted updated only
\* if a stored value was created or changed, and is counted unchanged when
\* neither was.
C3_UpdatedOnlyIfChanged ==
  \A i \in 1..Len(results) :
    LET r == results[i]
    IN Reconciled(r) =>
         /\ (r.class = "updated") => (r.wrote1 \/ r.wrote2)
         /\ (~r.wrote1 /\ ~r.wrote2) => (r.class = "unchanged")

\* C4 as claimed: a document with exactly one failed property call gets a
\* classification that is neither updated nor error, and the error count
\* counts only the documents whose two calls both failed.
C4_PartialIsDistinct ==
  /\ \A i \in 1..Len(results) :
       (results[i].reconciled /\ results[i].ok1 # results[i].ok2) =>
         results[i].class \notin {"updated", "errors"}
  /\ pc \in {"loop", "list", "create", "detail", "put", "done"} =>
       errors = Cardinality({i \in 1..Len(results) :
                  results[i].reconciled /\ ~results[i].ok1 /\ ~results[i].ok2})

\* the line a pass that reconciles the document successfully reports
SuccessLine(doc) ==
  Line("ok", doc, <<parseInt16(KindCode[KindOf(doc)])>>,
       KindStatus[KindOf(doc)].text, <<>>, <<>>)

\* C5: a dry run issues no create and no update call, and the line it
\* reports for a document carries the symbol and the status text of the line
\* a non-dry run reports when both property calls of the document succeed.
C5_DryRunPure ==
  /\ dryRun => WriteCalls = {}
  /\ Len(DocLines) = Len(results)
  /\ \A i \in 1..Len(results) :
       LET r == results[i]
       IN /\ ((dryRun /\ r.class # "skipped") \/ Reconciled(r)) =>
               DocLines[i] = SuccessLine(r.doc)
          /\ (r.class = "skipped") =>
               DocLines[i].kind \in {"noStatus", "nonStandard"}

\* a finished dry run that reported a document as it would be updated
C5_Witness ==
  /\ dryRun /\ pc = "done"
  /\ \E i \in 1..Len(results) :
       /\ results[i].class = "updated"
       /\ KindOf(results[i].doc) = "accepted"
       /\ DocLines[i].sym = <<9989>>
       /\ DocLines[i].status = <<"Accepted">>

\* C6 as claimed: a document whose status is not a word of the indicator
\* table is counted skipped with the non-standard line, and no property call
\* is issued for it.
C6_NonStandardSkipped ==
  /\ \A i \in 1..Len(results) :
       LET r == results[i]
       IN (~StatusFalsy(KindStatus[KindOf(r.doc)]) /\ ~InTable(r.doc)) =>
            /\ r.class = "skipped"
            /\ DocLines[i].kind = "nonStandard"
  /\ \A i \in 1..Len(calls) : calls[i].doc # 0 => InTable(calls[i].doc)

\* the kinds whose body yields no status: no Status label, the empty
\* self-closing paragraph, a value that is empty once trimmed
AbsentKinds == {"noLabel", "emptyP", "blank"}

InLoop == pc \in {"loop", "list", "create", "detail", "put", "done", "crashed"}

\* C7: a document whose extraction yields no status is counted skipped with
\* the could-not-extract line, is not counted as an error, and no store call
\* is issued for it; every counter counts the documents of its class.
C7_UnparseableSkipped ==
  /\ \A i \in 1..Len(results) :
       LET r == results[i]
       IN KindOf(r.doc) \in AbsentKinds =>
            /\ r.class = "skipped"
            /\ DocLines[i] = NoStatusLine(r.doc)
            /\ CallsOf(r.doc) = {}
  /\ InLoop =>
       /\ skipped = CountOf("skipped")
       /\ errors = CountOf("errors")
       /\ updated = CountOf("updated")
       /\ unchanged = CountOf("unchanged")

\* a run that skipped a blank status and an empty paragraph
C7_Witness ==
  /\ pc = "done"
  /\ Len(results) = 2
  /\ KindOf(results[1].doc) = "blank"
  /\ KindOf(results[2].doc) = "emptyP"
  /\ skipped = 2

\* the kinds whose title has no ADR-<digits>, or holds Reserved or
\* Design Review in some letter case
ExcludedKinds == {"noAdr", "filler", "reserved", "designReview"}

KeptId(id) == KindOf(id) \notin ExcludedKinds

\* C8: a document whose title fails the filter gets no line, no counter and
\* no property call; the documents that pass are processed in order.
C8_TitleFilter ==
  /\ InLoop => adrPages = SelectSeq(allPages, KeptId)
  /\ \A i \in 1..Len(out) : out[i].doc # 0 => KeptId(out[i].doc)
  /\ \A i \in 1..Len(calls) : calls[i].doc # 0 => KeptId(calls[i].doc)
  /\ \A i \in 1..Len(results) : results[i].doc = adrPages[i]
  /\ updated + skipped + unchanged + errors = Len(results)
  /\ pc = "done" => Len(results) = Len(adrPages)

\* a finished run over a reserved range and an ADR
C8_Witness ==
  /\ pc = "done"
  /\ collection = <<"reserved", "accepted">>
  /\ allPages = <<1, 2>>
  /\ Len(results) = 1 /\ results[1].doc = 2

\* C9 as claimed: once every page request has succeeded, the collector holds
\* every document of the collection once, in store order.
C9_CollectsAll ==
  (pc \notin {"start", "collect", "aborted"}) =>
    allPages = [i \in 1..Len(collection) |-> i]

SearchCalls == {i \in 1..Len(calls) : calls[i].op = "search"}

\* what an aborted run leaves behind, the output apart
AbortedClean ==
  /\ results = <<>>
  /\ SearchCalls = 1..Len(calls)
  /\ \A i \in 1..Len(out) : out[i].kind \notin {"tally", "found"} /\ out[i].doc = 0
  /\ \A i, j \in SearchCalls : i < j => calls[i].start < calls[j].start

\* C10 as claimed: a failed page request aborts the run with no output of
\* any kind before the abort.
C10_NoOutputBeforeAbort ==
  pc = "aborted" => (out = <<ErrorLine>> /\ AbortedClean)

\* C10 amended: a failed page request aborts the run; the start banner is the
\* only output before the error message; no document is classified, no
\* property call is issued, no tally is printed, no request is repeated and
\* the run takes no further step.
C10_AbortsAfterBanner ==
  /\ pc = "aborted" =>
       /\ out = <<BannerLine(dryRun), ErrorLine>>
       /\ AbortedClean
       /\ ~ENABLED Next
  /\ \A i, j \in SearchCalls : i < j => calls[i].start # calls[j].start

\* the third page request failed
C10_Witness ==
  /\ pc = "aborted"
  /\ Len(calls) = 3
  /\ calls[3].start = 100
  /\ Len(allPages) = 100

\* C11 as claimed: once collection has succeeded and every store call
\* returns, the run reaches the tally line with one classification for every
\* filtered document.
C11_ReachesTally ==
  (pc = "filter") ~>
    (/\ pc = "done"
     /\ out[Len(out)].kind = "tally"
     /\ Len(results) = Len(adrPages))

\* the code of the word's family for a word of the table, no indicator for
\* any other string
Expected(status) ==
  IF trim(toLowerCase(status)) \in StatusEmojiKeys
  THEN StrVal(StatusEmojiOwn(trim(toLowerCase(status))))
  ELSE Null

\* C12 as claimed: getEmojiCodePoint returns the family's code for each of
\* the ten words in any letter case and with any surrounding whitespace, and
\* no indicator for every other string, names of built-in object members
\* included.
C12_MapperTotal ==
  mapped # <<>> => mapped[1] = Expected(input.text)

\* which of the three patterns match the text handed to extractStatus
PrimaryMatches == FirstPrimary(input.text) # 0
EmptyMatches == FirstEmpty(input.text) # 0
FallbackMatches == FirstFallback(input.text) # 0
\* the text of the fallback's cell without its tags, trimmed
FallbackText == StripTags(FallbackCapture(input.text, FirstFallback(input.text)))

\* C18: the primary capture, trimmed, when the primary pattern matches; else
\* the empty result (absent in sync, "Unknown" in report) when the empty
\* pattern matches, whatever the fallback would capture; else the fallback's
\* tag-stripped trimmed text when it matches and that text is not empty;
\* else the empty result.
C18_PatternOrder ==
  /\ synced # <<>> =>
       synced[1] =
         IF PrimaryMatches
         THEN Status(trim(PrimaryCapture(input.text, FirstPrimary(input.text))))
         ELSE IF EmptyMatches THEN NoStatus
         ELSE IF FallbackMatches /\ FallbackText # <<>>
         THEN Status(FallbackText)
         ELSE NoStatus
  /\ reported # <<>> =>
       reported[1] =
         IF PrimaryMatches
         THEN trim(PrimaryCapture(input.text, FirstPrimary(input.text)))
         ELSE IF EmptyMatches THEN Unknown
         ELSE IF FallbackMatches /\ FallbackText # <<>> THEN FallbackText
         ELSE Unknown

\* both paths returned the empty result for a self-closing paragraph that is
\* followed by text the fallback would have returned
C18_Witness ==
  /\ input.kind = "markup"
  /\ ~PrimaryMatches /\ EmptyMatches
  /\ FallbackMatches /\ FallbackText = <<"Draft">>
  /\ synced = <<NoStatus>>
  /\ reported = <<Unknown>>

\* C19 as claimed: the report path returns the string the sync path returns,
\* "Unknown" where the sync path returns null, and never the empty string.
C19_SameOrUnknown ==
  (synced # <<>> /\ reported # <<>>) =>
    /\ reported[1] = IF synced[1].null THEN Unknown ELSE synced[1].text
    /\ reported[1] # <<>>

(***************************************************************************)
(* upsertProperty, call by call                                            *)
(***************************************************************************)
\* the calls of upsertProperty(doc, k, ...)
CallsFor(doc, k) ==
  {i \in 1..Len(calls) : calls[i].doc = doc /\ calls[i].key = k}
OpsFor(doc, k, op) == {i \in CallsFor(doc, k) : calls[i].op = op}
IsLastFor(i, doc, k) == \A j \in CallsFor(doc, k) : j <= i

Classed(doc) == \E i \in 1..Len(results) : results[i].doc = doc
ResultOf(doc) == results[CHOOSE i \in 1..Len(results) : results[i].doc = doc]

\* upsertProperty(doc, k, ...) has returned
Returned(doc, k) ==
  \/ Classed(doc)
  \/ /\ pc \in {"list", "create", "detail", "put"}
     /\ CurPage = doc /\ k = KeyPublished /\ key = KeyDraft
\* what it returned
Outcome(doc, k) ==
  IF Classed(doc)
  THEN IF k = KeyPublished THEN ResultOf(doc).ok1 ELSE ResultOf(doc).ok2
  ELSE ok1
\* the value the loop passes to it
TargetOf(doc) == KindCode[KindOf(doc)]

\* C13 as claimed: a successful list lookup that finds no property is
\* followed by one create call carrying the key and the target value, by no
\* detail read and no update, and upsertProperty returns the success flag of
\* the create call.
C13_CreateOnAbsent ==
  \A i \in 1..Len(calls) :
    LET c == calls[i]
    IN (/\ c.op = "list" /\ answers[i].ok /\ ~answers[i].data.exists
        /\ Returned(c.doc, c.key)) =>
         /\ CallsFor(c.doc, c.key) = {i, i + 1}
         /\ calls[i + 1].op = "create"
         /\ calls[i + 1].value = TargetOf(c.doc)
         /\ Outcome(c.doc, c.key) = answers[i + 1].ok

\* C14: a successful list lookup that finds the property with a value whose
\* string form is the target makes upsertProperty return success with no
\* further call, and the property keeps its value and version.
C14_NoWriteOnMatch ==
  \A i \in 1..Len(calls) :
    LET c == calls[i]
    IN (/\ c.op = "list" /\ answers[i].ok /\ answers[i].data.exists
        /\ TargetOf(c.doc).t = "str"
        /\ String(answers[i].data.value) = TargetOf(c.doc).v) =>
         /\ Returned(c.doc, c.key)
         /\ Outcome(c.doc, c.key)
         /\ CallsFor(c.doc, c.key) = {i}
         /\ <<c.doc, c.key>> \notin touched =>
              store[c.doc][c.key] = answers[i].data

\* the draft property held the number 2705, the target is "2705"
C14_Witness ==
  /\ pc = "done"
  /\ Len(results) = 1 /\ results[1].ok2
  /\ touched = {}
  /\ \E i \in 1..Len(calls) :
       /\ calls[i] = ListCall(1, KeyDraft)
       /\ answers[i] = Resp(TRUE, Prop(NumVal("2705"), 1))
  /\ store[1][KeyDraft] = Prop(NumVal("2705"), 1)
  /\ OpsFor(1, KeyDraft, "list") = CallsFor(1, KeyDraft)

\* C15 as claimed: the step that issues the update issues it once, carrying
\* the version read in the detail fetch + 1 and the target value; when the
\* property has changed since the detail fetch the store refuses the update
\* and keeps the other writer's value; upsertProperty returns the success
\* flag of the update and makes no second attempt.
C15_UpdateOnce ==
  [][(pc = "put" /\ pc' # "put") =>
       LET n == Len(calls')
           sent == calls'[n]
           got == answers'[n]
       IN /\ n = Len(calls) + 1
          /\ sent.op = "update" /\ sent.doc = CurPage /\ sent.key = key
          /\ sent.version = currentVersion + 1
          /\ sent.value = TargetOf(CurPage)
          /\ Cardinality(OpsFor(CurPage, key, "update")) = 0
          /\ store[CurPage][key].version # currentVersion =>
               (~got.ok /\ store' = store)
          /\ IF key = KeyPublished
             THEN ok1' = got.ok /\ key' = KeyDraft /\ pc' = "list"
             ELSE /\ results'[Len(results')].ok2 = got.ok
                  /\ idx' = idx + 1 /\ pc' = "loop"]_vars

\* C16: a detail fetch that returns the property without a version number
\* makes upsertProperty return failure with no create and no update; the
\* other property of the document still gets its upsertProperty call.
C16_MissingVersionFails ==
  \A i \in 1..Len(calls) :
    LET c == calls[i]
    IN (c.op = "detail" /\ answers[i].ok /\ answers[i].data.version = 0) =>
         /\ Returned(c.doc, c.key)
         /\ ~Outcome(c.doc, c.key)
         /\ IsLastFor(i, c.doc, c.key)
         /\ OpsFor(c.doc, c.key, "create") = {}
         /\ OpsFor(c.doc, c.key, "update") = {}
         /\ Classed(c.doc) =>
              \A k \in Keys : OpsFor(c.doc, k, "list") # {}

\* the published property had no version; the draft one was updated
C16_Witness ==
  /\ pc = "done"
  /\ Len(results) = 1
  /\ ~results[1].ok1 /\ results[1].ok2 /\ results[1].wrote2
  /\ \E i \in 1..Len(calls) :
       /\ calls[i] = DetailCall(1, KeyPublished)
       /\ answers[i].ok /\ answers[i].data.version = 0
  /\ store[1][KeyPublished] = store0[1][KeyPublished]
  /\ store[1][KeyDraft] = Prop(StrVal("2705"), 2)

\* the position of a document in the collector's result
PosOf(doc) == CHOOSE i \in 1..Len(allPages) : allPages[i] = doc

\* C17: property calls are issued in the order of the collected documents,
\* and within a document every call for emoji-title-published comes before
\* the first call for emoji-title-draft; the documents are classified in
\* that order too.  (Stated over each call and the one after it: the order
\* of positions is transitive, and a document has these two keys only.)
C17_Serialized ==
  /\ \A i \in {n \in 1..(Len(calls) - 1) : calls[n].doc # 0} :
       LET j == i + 1
       IN /\ calls[j].doc # 0
          /\ PosOf(calls[i].doc) <= PosOf(calls[j].doc)
          /\ calls[i].doc = calls[j].doc =>
               ~(calls[i].key = KeyDraft /\ calls[j].key = KeyPublished)
  /\ \A i, j \in 1..Len(results) :
       i < j => PosOf(results[i].doc) < PosOf(results[j].doc)
  /\ Len(answers) = Len(calls)

\* two documents, both reconciled with calls for both properties
C17_Witness ==
  /\ pc = "done"
  /\ Len(results) = 2
  /\ results[1].reconciled /\ results[2].reconciled
  /\ \A d \in {1, 2} : \A k \in Keys : CallsFor(d, k) # {}

\* C20: a failed store call is the last call of its upsertProperty, which
\* returns failure; after a failed list lookup or detail fetch no create and
\* no update is issued; a document whose two property calls failed is
\* counted once, as an error, with the failed line.
C20_NoRetry ==
  /\ \A i \in 1..Len(calls) :
       LET c == calls[i]
       IN (c.doc # 0 /\ ~answers[i].ok) =>
            /\ Returned(c.doc, c.key)
            /\ ~Outcome(c.doc, c.key)
            /\ IsLastFor(i, c.doc, c.key)
            /\ Cardinality(OpsFor(c.doc, c.key, c.op)) = 1
            /\ c.op \in {"list", "detail"} =>
                 /\ OpsFor(c.doc, c.key, "create") = {}
                 /\ OpsFor(c.doc, c.key, "update") = {}
  /\ \A i \in 1..Len(results) :
       LET r == results[i]
       IN (r.reconciled /\ ~r.ok1 /\ ~r.ok2) =>
            /\ r.class = "errors"
            /\ DocLines[i] = FailedLine(r.doc)
  /\ InLoop => errors = CountOf("errors")

\* a failed list lookup for one property and a failed detail fetch for the
\* other: the document is an error
C20_Witness ==
  /\ pc = "done"
  /\ Len(results) = 1 /\ results[1].class = "errors"
  /\ ~results[1].ok1 /\ ~results[1].ok2
  /\ Len(calls) = 4
  /\ calls[2].op = "list" /\ ~answers[2].ok
  /\ calls[4].op = "detail" /\ ~answers[4].ok
  /\ errors = 1

\* C21 as claimed: the first request asks for offset 0; each later request
\* asks for the offset the store returned with the previous response, which
\* reported a further page; no request follows a response that reports no
\* further page.
C21_FollowsCursor ==
  /\ \A i \in SearchCalls :
       IF i = 1 THEN calls[i].start = 0
       ELSE /\ answers[i - 1].ok
            /\ PageHasNext(calls[i - 1].start)
            /\ calls[i].start = NextLinkStart(calls[i - 1].start)
  /\ \A i \in SearchCalls :
       (answers[i].ok /\ ~PageHasNext(calls[i].start)) =>
         i + 1 \notin SearchCalls

\* the collector loop comes to an end
C21_CollectorEnds == (pc = "collect") ~> (pc \in {"filter", "aborted"})

TallyLines == {i \in 1..Len(out) : out[i].kind = "tally"}

C23_WritesOnlyMapped ==
  /\ \A i \in 1..Len(calls) :
       /\ calls[i].op \in {"search", "list", "detail", "create", "update"}
       /\ calls[i].op \in {"create", "update"} =>
            /\ calls[i].key \in Keys
            /\ KeptId(calls[i].doc)
            /\ InTable(calls[i].doc)
  /\ \A d \in 1..Len(collection) : \A k \in Keys :
       (store[d][k] # store0[d][k] /\ <<d, k>> \notin touched) =>
         (KeptId(d) /\ InTable(d))

IsBase(cp) == cp # VariationSelector
\* an emoji without its presentation selector
BaseSymbol(emoji) == SelectSeq(emoji, IsBase)

\* C24 as claimed: for a word of the table, in any letter case and padding,
\* getStatusEmoji shows the symbol of the code getEmojiCodePoint resolves
\* (the presentation selector apart); for any other string getEmojiCodePoint
\* resolves nothing and getStatusEmoji shows the placeholder.
C24_SameSymbol ==
  (mapped # <<>> /\ shown # <<>>) =>
    IF trim(toLowerCase(input.text)) \in StatusEmojiKeys
    THEN BaseSymbol(shown[1]) = codePointToEmoji(mapped[1])
    ELSE mapped[1] = Null /\ shown[1] = Placeholder

\* the two properties of the document hold different values
Differ(doc) ==
  \/ store[doc][KeyPublished].exists # store[doc][KeyDraft].exists
  \/ store[doc][KeyPublished].value # store[doc][KeyDraft].value
\* their values read differently as strings
DifferAsStrings(doc) ==
  \/ store[doc][KeyPublished].exists # store[doc][KeyDraft].exists
  \/ String(store[doc][KeyPublished].value) # String(store[doc][KeyDraft].value)

\* C25 as claimed: both properties of a reconciled document get their
\* upsertProperty call, and (no external writer) the two properties differ
\* afterwards only if exactly one of the two calls failed.
C25_DifferOnlyIfOneFailed ==
  \A i \in 1..Len(results) :
    LET r == results[i]
    IN (r.reconciled /\ Untouched(r.doc)) =>
         /\ \A k \in Keys : CallsFor(r.doc, k) # {}
         /\ Differ(r.doc) => (r.ok1 # r.ok2)

\* C25 amended: both properties of a reconciled document get their
\* upsertProperty call, whatever the first call returned, and (no external
\* writer) the two properties read differently as strings afterwards only if
\* at least one of the two calls failed.
C25_DifferOnlyIfFailed ==
  \A i \in 1..Len(results) :
    LET r == results[i]
    IN (r.reconciled /\ Untouched(r.doc)) =>
         /\ \A k \in Keys : CallsFor(r.doc, k) # {}
         /\ DifferAsStrings(r.doc) => ~(r.ok1 /\ r.ok2)

\* the first document's published call failed, the second document's draft
\* call failed; the properties of both documents differ
C25_Witness ==
  /\ pc = "done"
  /\ Len(results) = 2
  /\ ~results[1].ok1 /\ results[1].ok2
  /\ results[2].ok1 /\ ~results[2].ok2
  /\ \A d \in {results[1].doc, results[2].doc} :
       DifferAsStrings(d) /\ CallsFor(d, KeyDraft) # {}

Sum == updated + skipped + unchanged + errors

\* C26: through the loop the four counters add up to the number of filtered
\* documents processed so far; a processed document raises one counter by
\* one and nothing else changes a counter; at the tally the sum is the number
\* of the "Found N ADR pages" line and the tally line shows the counters.
C26_CountersAddUp ==
  [][/\ (results' # results) =>
          /\ Len(results') = Len(results) + 1
          /\ Sum' = Sum + 1
          /\ updated' >= updated /\ skipped' >= skipped
          /\ unchanged' >= unchanged /\ errors' >= errors
     /\ (results' = results /\ InLoop) =>
          UNCHANGED <<updated, skipped, unchanged, errors>>
     /\ InLoop' => (Sum' = Len(results') /\ Len(results') = idx' - 1)
     /\ (pc' = "done") =>
          /\ Sum' = Len(adrPages')
          /\ \E i \in 1..Len(out') : out'[i] = FoundLine(Sum')
          /\ out'[Len(out')] =
               TallyLine(updated', skipped', unchanged', errors')]_vars

\* a finished run that skipped one document and reconciled the other
C26_Witness ==
  /\ pc = "done"
  /\ Len(adrPages) = 2
  /\ skipped = 1 /\ updated = 1 /\ unchanged = 0 /\ errors = 0
  /\ out[Len(out)] = TallyLine(1, 1, 0, 0)

\* the kinds a run skips: no status extracted, or a status outside the table
SkippedKinds == AbsentKinds \cup {"onboarding"}

\* C27: a dry run issues no property call, read or write; it counts every
\* document whose status is a word of the table as updated, whatever the
\* two properties hold; in a dry run and in a real run alike the skipped
\* documents are those of the same kinds, and every filtered document is
\* counted.
C27_DryRunReadsNothing ==
  /\ dryRun => SearchCalls = 1..Len(calls)
  /\ dryRun => store = store0
  /\ \A i \in 1..Len(results) :
       LET r == results[i]
       IN /\ (dryRun /\ InTable(r.doc)) => r.class = "updated"
          /\ (r.class = "skipped") <=> (KindOf(r.doc) \in SkippedKinds)
  /\ (pc = "done") => Len(results) = Len(adrPages)
  /\ (dryRun /\ InLoop) => (unchanged = 0 /\ errors = 0)

\* a finished dry run over a document whose two properties already hold the
\* target: it is counted updated
C27_Witness ==
  /\ dryRun /\ pc = "done"
  /\ collection = <<"accepted">>
  /\ \A k \in Keys : store[1][k] = Prop(StrVal("2705"), 1)
  /\ updated = 1
  /\ Len(calls) = 1

\* the write calls set-emoji issued for key k
EmojiWrites(k) == {i \in WriteCalls : calls[i].key = k}

\* the one write set-emoji owes key k: a create where the property was
\* absent before the invocation, otherwise an update with its version + 1
OwedWrite(k) ==
  IF store0[1][k].exists
  THEN UpdateCall(1, k, emojiValue, store0[1][k].version + 1)
  ELSE CreateCall(1, k, emojiValue)

\* key k holds the requested value one version above the one before
Raised(k) ==
  store[1][k] = Prop(JsonValue(emojiValue), store0[1][k].version + 1)

\* C28: every successful set-emoji invocation has issued exactly one write
\* per property (a create where the property was absent, otherwise an update
\* with version + 1), also where the stored value already equalled the
\* requested one, and has raised each version by 1; every call for the
\* draft property comes after an accepted write of the published property;
\* and an invocation that ended on a failed draft write has printed an error
\* and left the published property changed and the draft one as it was.
C28_SetEmojiAlwaysWrites ==
  /\ pc = "emojiDone" =>
       \A k \in Keys :
         /\ Cardinality(EmojiWrites(k)) = 1
         /\ \A i \in EmojiWrites(k) : calls[i] = OwedWrite(k) /\ answers[i].ok
         /\ Raised(k)
  /\ \A i \in 1..Len(calls) :
       calls[i].key = KeyDraft =>
         \E j \in EmojiWrites(KeyPublished) : j < i /\ answers[j].ok
  /\ ( /\ pc = "exited"
       /\ Len(calls) > 0
       /\ Len(calls) \in EmojiWrites(KeyDraft) ) =>
       /\ ~answers[Len(calls)].ok
       /\ Len(out) > 0 /\ out[Len(out)] = ErrorLine
       /\ Raised(KeyPublished)
       /\ store[1][KeyDraft] = store0[1][KeyDraft]

\* a second invocation with the value both properties already held has
\* finished, and both versions went up again
C28_Witness ==
  /\ pc = "emojiDone" /\ run = 2
  /\ \A k \in Keys :
       /\ store0[1][k].exists
       /\ store0[1][k].value = JsonValue(emojiValue)
       /\ store[1][k].version = store0[1][k].version + 1
       /\ Cardinality(EmojiWrites(k)) = 1

====
